---------------------------- MODULE Spec2Model ----------------------------
(***************************************************************************)
(* A model of block-run (src/block-run.py): a script is split into blocks, *)
(* the blocks are handed to a wrapper process, and the wrapper's output is *)
(* reassembled with the blocks' source through the marker protocol.        *)
(*                                                                         *)
(* Text is a sequence of characters, each a TLA+ string.  A few characters *)
(* stand for a fixed run of text that none of the modelled operations      *)
(* looks into ("/usr/bin/env", the colour escapes, the separator rule).    *)
(***************************************************************************)
EXTENDS Naturals, Sequences, FiniteSets, TLC

VARIABLES
    pc,            \* the statement main() (or a harness) is about to run
    args,          \* argparse result: script, hierarchical, show_block_numbers
    env,           \* what the run finds outside: files, directories, PATH
    content,       \* main: content; the splitters' argument
    lines,         \* main: lines
    shebang,       \* main: shebang; parse_shebang's argument
    binary,        \* main: binary; find_wrapper's argument
    wrapper,       \* main: wrapper
    blocks,        \* main: blocks; process_output's argument
    lexer,         \* main: lexer
    wrapper_args,  \* main: wrapper_args
    proc,          \* the wrapper child process: its pipes, exit status, write log
    output,        \* main: output; process_output's argument
    out,           \* standard output of the run: one entry per print() call
    err,           \* standard error of the run: one entry per diagnostic
    exitcode       \* exit status of the run; RUNNING until it ends

vars == <<pc, args, env, content, lines, shebang, binary, wrapper, blocks,
          lexer, wrapper_args, proc, output, out, err, exitcode>>

-----------------------------------------------------------------------------
(* Characters *)

NL  == "\n"
CR  == "\r"
TAB == "\t"
SP  == " "
GS  == "<x1d>"
US  == "<x1f>"

\* MARKER = "\x1d"
MARKER == GS

\* the characters str.splitlines() breaks a line at
LineBreaks == {NL, CR, "<x0b>", "<x0c>", "<x1c>", GS, "<x1e>", "<x85>"}

\* the characters str.strip(), str.split() and the regex class \s take as blank
WhiteSpace == LineBreaks \cup {SP, TAB, US}

\* Python's None, kept apart from every text (the empty text included)
None == <<"<None>">>

\* exit status of the run: none while it runs, then the status it ended with
RUNNING   == "running"
EXIT_OK   == "0"
EXIT_FAIL == "1"

-----------------------------------------------------------------------------
(* str methods *)

RECURSIVE SplitLinesFrom(_, _, _, _)
SplitLinesFrom(s, i, cur, acc) ==
    IF i > Len(s)
    THEN IF cur = <<>> THEN acc ELSE Append(acc, cur)
    ELSE IF s[i] \in LineBreaks
    THEN SplitLinesFrom(s,
                        IF s[i] = CR /\ i < Len(s) /\ s[i + 1] = NL
                        THEN i + 2 ELSE i + 1,
                        <<>>, Append(acc, cur))
    ELSE SplitLinesFrom(s, i + 1, Append(cur, s[i]), acc)

\* s.splitlines(): no entry for the text after a final line break
SplitLines(s) == SplitLinesFrom(s, 1, <<>>, <<>>)

RECURSIVE SplitOnFrom(_, _, _, _, _)
SplitOnFrom(s, c, i, cur, acc) ==
    IF i > Len(s) THEN Append(acc, cur)
    ELSE IF s[i] = c THEN SplitOnFrom(s, c, i + 1, <<>>, Append(acc, cur))
    ELSE SplitOnFrom(s, c, i + 1, Append(cur, s[i]), acc)

\* s.split(c) for a one-character c: always one entry more than separators
SplitOn(s, c) == SplitOnFrom(s, c, 1, <<>>, <<>>)

RECURSIVE LStripSet(_, _)
LStripSet(s, chars) ==
    IF s # <<>> /\ Head(s) \in chars THEN LStripSet(Tail(s), chars) ELSE s

RECURSIVE RStripSet(_, _)
RStripSet(s, chars) ==
    IF s # <<>> /\ s[Len(s)] \in chars
    THEN RStripSet(SubSeq(s, 1, Len(s) - 1), chars) ELSE s

\* s.strip()
Strip(s) == RStripSet(LStripSet(s, WhiteSpace), WhiteSpace)

RECURSIVE Join(_, _)
\* sep.join(parts)
Join(parts, sep) ==
    IF parts = <<>> THEN <<>>
    ELSE IF Len(parts) = 1 THEN parts[1]
    ELSE parts[1] \o sep \o Join(Tail(parts), sep)

\* s.startswith(prefix)
StartsWith(s, prefix) ==
    Len(s) >= Len(prefix) /\ SubSeq(s, 1, Len(prefix)) = prefix

-----------------------------------------------------------------------------
(* Block splitters *)

HEADER == <<"#", "#", SP>>

\* a line the blank-line splitter takes for blank only when it is empty
IsBlankEmptyOnly(line) == line = <<>>

\* not line.strip()
IsBlank(line) == Strip(line) = <<>>

RECURSIVE BlankLinesLoop(_, _, _)
BlankLinesLoop(ls, result, current_block) ==
    IF ls = <<>>
    THEN IF current_block # <<>>
         THEN Append(result, Join(current_block, <<NL>>))
         ELSE result
    ELSE IF IsBlank(Head(ls))
    THEN IF current_block # <<>>
         THEN BlankLinesLoop(Tail(ls),
                             Append(result, Join(current_block, <<NL>>)), <<>>)
         ELSE BlankLinesLoop(Tail(ls), result, current_block)
    ELSE BlankLinesLoop(Tail(ls), result, Append(current_block, Head(ls)))

split_blocks_blank_lines(text) ==
    BlankLinesLoop(SplitLines(text), <<>>, <<>>)

\* the hierarchical splitter keeping a line only when it is not blank
KeepsLineNonBlankOnly(current_block, line) == Strip(line) # <<>>

\* current_block or line.strip()
KeepsLine(current_block, line) == current_block # <<>> \/ Strip(line) # <<>>

RECURSIVE HierarchicalLoop(_, _, _)
HierarchicalLoop(ls, result, current_block) ==
    IF ls = <<>>
    THEN IF current_block # <<>>
         THEN Append(result, Join(current_block, <<NL>>))
         ELSE result
    ELSE IF StartsWith(Head(ls), HEADER)
    THEN HierarchicalLoop(Tail(ls),
                          IF current_block # <<>>
                          THEN Append(result, Join(current_block, <<NL>>))
                          ELSE result,
                          <<Head(ls)>>)
    ELSE IF KeepsLine(current_block, Head(ls))
    THEN HierarchicalLoop(Tail(ls), result, Append(current_block, Head(ls)))
    ELSE HierarchicalLoop(Tail(ls), result, current_block)

split_blocks_hierarchical(text) ==
    HierarchicalLoop(SplitLines(text), <<>>, <<>>)

-----------------------------------------------------------------------------
(* Shebang resolver *)

\* "/usr/bin/env", one character of the model: only the regex of parse_shebang
\* reads it, and as a whole
ENV == "/usr/bin/env"

\* shutil.which(cmd): the machine's resolution table, env.which, holds a pair
\* <<cmd, path>> for every command found on the search path
Which(e, cmd) ==
    IF \E p \in e.which : p[1] = cmd
    THEN (CHOOSE p \in e.which : p[1] = cmd)[2]
    ELSE None

\* the longest prefix of s free of blanks: s.split()[0] and the group (\S+),
\* for an s that starts with a non-blank
RECURSIVE FirstWord(_)
FirstWord(s) ==
    IF s = <<>> \/ Head(s) \in WhiteSpace THEN <<>>
    ELSE <<Head(s)>> \o FirstWord(Tail(s))

\* re.match(r"^/usr/bin/env\s+(\S+)", s): group 1, or None without a match
EnvMatch(s) ==
    IF /\ Len(s) >= 3
       /\ s[1] = ENV
       /\ s[2] \in WhiteSpace
       /\ FirstWord(LStripSet(Tail(s), WhiteSpace)) # <<>>
    THEN FirstWord(LStripSet(Tail(s), WhiteSpace))
    ELSE None

\* shebang.lstrip("#!"): every leading "#" and "!" goes
DropPrefix(line) == LStripSet(line, {"#", "!"})

parse_shebang(e, line) ==
    LET s == Strip(DropPrefix(line)) IN
    IF s = <<>> THEN None
    ELSE IF EnvMatch(s) # None
    THEN LET cmd == EnvMatch(s)
             resolved == Which(e, cmd)
         IN  IF resolved # None THEN resolved ELSE cmd
    ELSE FirstWord(s)

-----------------------------------------------------------------------------
(* Wrapper locator *)

\* WRAPPER_DIRS and CONFIG_FILES hold two paths each (user first, then system)
WRAPPER_DIRS == << <<"<data>/block-run/wrappers">>,
                   <<"/usr/local/share/block-run/wrappers">> >>

NCONFIG == 2

RECURSIVE LastPart(_)
LastPart(parts) ==
    IF parts = <<>> THEN <<>>
    ELSE IF parts[Len(parts)] # <<>> THEN parts[Len(parts)]
    ELSE LastPart(SubSeq(parts, 1, Len(parts) - 1))

\* Path(p).name: the last component of p, trailing and doubled "/" dropped
PathName(p) == LastPart(SplitOn(p, "/"))

\* dir / name: a name that is absolute replaces dir; an empty one leaves it
PathJoin(dir, name) ==
    IF name # <<>> /\ Head(name) = "/" THEN name
    ELSE IF name = <<>> THEN dir
    ELSE dir \o <<"/">> \o name

\* line.split("=", 1)[1], for a line that holds a "="
RECURSIVE AfterEquals(_)
AfterEquals(line) ==
    IF line = <<>> THEN <<>>
    ELSE IF Head(line) = "=" THEN Tail(line)
    ELSE AfterEquals(Tail(line))

\* the inner loop over one file's lines: the stripped value of the first line
\* that starts with "<binary>=", or the name carried in
RECURSIVE ScanConfigLines(_, _, _)
ScanConfigLines(ls, bin, wrapper_name) ==
    IF ls = <<>> THEN wrapper_name
    ELSE IF StartsWith(Head(ls), bin \o <<"=">>)
    THEN Strip(AfterEquals(Head(ls)))
    ELSE ScanConfigLines(Tail(ls), bin, wrapper_name)

\* if wrapper_name: neither None nor empty
Truthy(t) == t # None /\ t # <<>>

\* the loop over CONFIG_FILES, from file i on
RECURSIVE ScanConfigFiles(_, _, _, _)
ScanConfigFiles(e, bin, i, wrapper_name) ==
    IF i > NCONFIG THEN wrapper_name
    ELSE LET f == e.configs[i]
             found == IF f.is_file /\ f.readable
                      THEN ScanConfigLines(SplitLines(f.text), bin, wrapper_name)
                      ELSE wrapper_name
         IN  IF Truthy(found) THEN found
             ELSE ScanConfigFiles(e, bin, i + 1, found)

\* the loop over WRAPPER_DIRS, from directory i on
RECURSIVE SearchWrapperDirs(_, _, _)
SearchWrapperDirs(e, wrapper_name, i) ==
    IF i > Len(WRAPPER_DIRS) THEN None
    ELSE LET wrapper_path == PathJoin(WRAPPER_DIRS[i], wrapper_name) IN
         IF wrapper_path \in e.exec_files THEN wrapper_path
         ELSE SearchWrapperDirs(e, wrapper_name, i + 1)

find_wrapper(e, bin) ==
    LET basename == PathName(bin)
        configured == ScanConfigFiles(e, bin, 1, None)
        wrapper_name == IF ~Truthy(configured) THEN basename ELSE configured
    IN  SearchWrapperDirs(e, wrapper_name, 1)

-----------------------------------------------------------------------------
(* Highlighting *)

\* LEXER_MAP, by basename; each name is one character of the model
LEXER_MAP ==
    { << <<"python">>, "python" >>, << <<"python3">>, "python" >>,
      << <<"python2">>, "python" >>, << <<"bash">>, "bash" >>,
      << <<"sh">>, "bash" >>, << <<"zsh">>, "bash" >>, << <<"ksh">>, "bash" >>,
      << <<"node">>, "javascript" >>, << <<"nodejs">>, "javascript" >>,
      << <<"ts-node">>, "typescript" >>, << <<"tsx">>, "typescript" >>,
      << <<"mariadb">>, "sql" >>, << <<"mysql">>, "sql" >>,
      << <<"sqlite3">>, "sql" >>, << <<"ruby">>, "ruby" >>,
      << <<"irb">>, "ruby" >>, << <<"perl">>, "perl" >>, << <<"php">>, "php" >>,
      << <<"lua">>, "lua" >> }

\* env.pygmentize is "absent" (not on the search path), "fails" (exits
\* non-zero) or "works"; env.guess is what "pygmentize -N <file>" prints
get_lexer(e, bin) ==
    LET basename == PathName(bin)
        mapped == IF \E m \in LEXER_MAP : m[1] = basename
                  THEN (CHOOSE m \in LEXER_MAP : m[1] = basename)[2]
                  ELSE ""
        guessed == IF mapped = "" /\ e.pygmentize = "works" THEN e.guess
                   ELSE mapped
    IN  IF guessed = "" THEN "text" ELSE guessed

\* what "pygmentize -l <lexer>" writes for code: the code in colour and a
\* final line break
PygmentizeOut(code) == <<"<hl>">> \o code \o <<"</hl>", NL>>

highlight(e, code, lx) ==
    IF lx = "text" \/ e.pygmentize = "absent" THEN code
    ELSE IF e.pygmentize = "works" THEN RStripSet(PygmentizeOut(code), {NL})
    ELSE code

\* separator(): the dimmed rule
separator == <<"<DIM>", "<rule>", "<RESET>">>

-----------------------------------------------------------------------------
(* Output reassembler *)

DIGITS == <<"0", "1", "2", "3", "4", "5", "6", "7", "8", "9">>

DigitChars == {DIGITS[i] : i \in 1..Len(DIGITS)}

DigitValue(c) == (CHOOSE i \in 1..Len(DIGITS) : DIGITS[i] = c) - 1

\* int(text) for a text of decimal digits
RECURSIVE ParseInt(_)
ParseInt(ds) ==
    IF ds = <<>> THEN 0
    ELSE 10 * ParseInt(SubSeq(ds, 1, Len(ds) - 1)) + DigitValue(ds[Len(ds)])

\* str(n) for n >= 0
RECURSIVE DecStr(_)
DecStr(n) ==
    IF n < 10 THEN <<DIGITS[n + 1]>>
    ELSE DecStr(n \div 10) \o <<DIGITS[(n % 10) + 1]>>

\* marker_pattern.match(line): MARKER, "{", one or more digits, "}", MARKER and
\* nothing else
IsMarkerLine(line) ==
    /\ Len(line) >= 5
    /\ line[1] = MARKER
    /\ line[2] = "{"
    /\ line[Len(line) - 1] = "}"
    /\ line[Len(line)] = MARKER
    /\ \A i \in 3..(Len(line) - 2) : line[i] \in DigitChars

\* int(match.group(1))
MarkerIndex(line) == ParseInt(SubSeq(line, 3, Len(line) - 2))

\* f"{CYAN}# Block {block_num}{RESET}"
BlockHeader(block_num) ==
    <<"<CYAN>", "#", SP, "Block", SP>> \o DecStr(block_num) \o <<"<RESET>">>

\* the prints of the marker branch up to the first failure: the header goes out
\* before blocks[idx] is read
MarkerPrints(e, idx, bs, lx, show) ==
    (IF show THEN <<BlockHeader(idx + 1)>> ELSE <<>>)
    \o (IF idx < Len(bs) THEN <<highlight(e, bs[idx + 1], lx), separator>>
        ELSE <<>>)

\* the for loop of process_output over the lines left: what it prints, and
\* whether blocks[idx] raised IndexError (which ends the loop)
RECURSIVE ProcessLines(_, _, _, _, _, _)
ProcessLines(e, ls, bs, lx, show, printed) ==
    IF ls = <<>> THEN [printed |-> printed, raised |-> FALSE]
    ELSE IF IsMarkerLine(Head(ls))
    THEN LET idx == MarkerIndex(Head(ls))
             now == printed \o MarkerPrints(e, idx, bs, lx, show)
         IN  IF idx < Len(bs)
             THEN ProcessLines(e, Tail(ls), bs, lx, show, now)
             ELSE [printed |-> now, raised |-> TRUE]
    ELSE ProcessLines(e, Tail(ls), bs, lx, show, Append(printed, Head(ls)))

\* output.split("\n")
OutputLines(text) == SplitOn(text, NL)

process_output(e, text, bs, lx, show) ==
    ProcessLines(e, OutputLines(text), bs, lx, show, <<>>)

-----------------------------------------------------------------------------
(* main() *)

\* die(msg): one diagnostic on standard error, then sys.exit(1)
Die(msg) ==
    /\ err' = Append(err, msg)
    /\ exitcode' = EXIT_FAIL
    /\ pc' = "exit"

\* [str(wrapper), "--binary", binary, "--"] + blocks, every block joined into
\* one argument
JoinedWrapperArgs(w, bin, bs) ==
    <<w, <<"--binary">>, bin, <<"--">>, Join(bs, <<NL, NL>>)>>

\* [str(wrapper), "--binary", binary, "--"] + blocks
WrapperArgs(w, bin, bs) == <<w, <<"--binary">>, bin, <<"--">> >> \o bs

\* result.stderr + result.stdout
CombinedOutputErrFirst(p) == p.stderr \o p.stdout

\* result.stdout + result.stderr
CombinedOutput(p) == p.stdout \o p.stderr

\* a child process that was never started
NoProc == [state |-> "none", stdout |-> <<>>, stderr |-> <<>>,
           returncode |-> 0, log |-> <<>>]

\* if not script_path.is_file(): die
CheckScript ==
    /\ pc = "check_script"
    /\ IF ~env.is_file
       THEN Die("script not found")
       ELSE pc' = "read" /\ UNCHANGED <<err, exitcode>>
    /\ UNCHANGED <<args, env, content, lines, shebang, binary, wrapper, blocks,
                   lexer, wrapper_args, proc, output, out>>

\* content = script_path.read_text(), die on IOError/OSError
ReadScript ==
    /\ pc = "read"
    /\ IF ~env.readable
       THEN Die("could not read script") /\ UNCHANGED content
       ELSE content' = env.text /\ pc' = "check_empty"
            /\ UNCHANGED <<err, exitcode>>
    /\ UNCHANGED <<args, env, lines, shebang, binary, wrapper, blocks, lexer,
                   wrapper_args, proc, output, out>>

\* lines = content.splitlines(); if not lines: die
CheckEmpty ==
    /\ pc = "check_empty"
    /\ lines' = SplitLines(content)
    /\ IF lines' = <<>>
       THEN Die("script is empty")
       ELSE pc' = "check_shebang" /\ UNCHANGED <<err, exitcode>>
    /\ UNCHANGED <<args, env, content, shebang, binary, wrapper, blocks, lexer,
                   wrapper_args, proc, output, out>>

\* shebang = lines[0]; if not shebang.startswith("#!"): die
CheckShebang ==
    /\ pc = "check_shebang"
    /\ shebang' = lines[1]
    /\ IF ~StartsWith(shebang', <<"#", "!">>)
       THEN Die("no shebang found")
       ELSE pc' = "parse_shebang" /\ UNCHANGED <<err, exitcode>>
    /\ UNCHANGED <<args, env, content, lines, binary, wrapper, blocks, lexer,
                   wrapper_args, proc, output, out>>

\* binary = parse_shebang(shebang); if not binary: die
ParseShebang ==
    /\ pc = "parse_shebang"
    /\ binary' = parse_shebang(env, shebang)
    /\ IF ~Truthy(binary')
       THEN Die("could not parse shebang")
       ELSE pc' = "find_wrapper" /\ UNCHANGED <<err, exitcode>>
    /\ UNCHANGED <<args, env, content, lines, shebang, wrapper, blocks, lexer,
                   wrapper_args, proc, output, out>>

\* the wrapper lookup, its failure left for later
FindWrapperNoDie ==
    /\ pc = "find_wrapper"
    /\ wrapper' = find_wrapper(env, binary)
    /\ pc' = "split"
    /\ UNCHANGED <<args, env, content, lines, shebang, binary, blocks, lexer,
                   wrapper_args, proc, output, out, err, exitcode>>

\* wrapper = find_wrapper(binary); if not wrapper: die
FindWrapper ==
    /\ pc = "find_wrapper"
    /\ wrapper' = find_wrapper(env, binary)
    /\ IF wrapper' = None
       THEN Die("no wrapper found")
       ELSE pc' = "split" /\ UNCHANGED <<err, exitcode>>
    /\ UNCHANGED <<args, env, content, lines, shebang, binary, blocks, lexer,
                   wrapper_args, proc, output, out>>

\* the body handed to the splitter: "\n".join(lines[1:])
ContentWithoutShebang(ls) == Join(Tail(ls), <<NL>>)

\* blocks = split_blocks_*(content_without_shebang); if not blocks: die
SplitBlocks ==
    /\ pc = "split"
    /\ blocks' = IF args.hierarchical
                 THEN split_blocks_hierarchical(ContentWithoutShebang(lines))
                 ELSE split_blocks_blank_lines(ContentWithoutShebang(lines))
    /\ IF blocks' = <<>>
       THEN Die("no blocks found")
       ELSE pc' = "print_header" /\ UNCHANGED <<err, exitcode>>
    /\ UNCHANGED <<args, env, content, lines, shebang, binary, wrapper, lexer,
                   wrapper_args, proc, output, out>>

\* print(f"{BOLD}{args.script}{RESET}"); print(f"{DIM}{shebang}{RESET}"); print()
FileHeaderPrints(script, line) ==
    << <<"<BOLD>">> \o script \o <<"<RESET>">>,
       <<"<DIM>">> \o line \o <<"<RESET>">>,
       <<>> >>

\* lexer = get_lexer(binary, args.script) and the three prints of the file header
PrintHeader ==
    /\ pc = "print_header"
    /\ lexer' = get_lexer(env, binary)
    /\ out' = out \o FileHeaderPrints(args.script, shebang)
    /\ pc' = "launch"
    /\ UNCHANGED <<args, env, content, lines, shebang, binary, wrapper, blocks,
                   wrapper_args, proc, output, err, exitcode>>

\* wrapper_args = ...; subprocess.run(wrapper_args, capture_output=True): the
\* child starts, or the launch raises OSError and main dies
LaunchWrapper ==
    /\ pc = "launch"
    /\ wrapper_args' = WrapperArgs(wrapper, binary, blocks)
    /\ IF ~env.launch_ok
       THEN Die("failed to run wrapper") /\ UNCHANGED proc
       ELSE /\ proc' = [NoProc EXCEPT !.state = "running"]
            /\ pc' = "wait"
            /\ UNCHANGED <<err, exitcode>>
    /\ UNCHANGED <<args, env, content, lines, shebang, binary, wrapper, blocks,
                   lexer, output, out>>

-----------------------------------------------------------------------------
(* The wrapper child process and the end of main() *)

\* the most writes the wrapper makes in one run
MaxWrites == 2

\* the marker line of block idx, as a wrapper writes it
Marker(idx) == <<MARKER, "{">> \o DecStr(idx) \o <<"}", MARKER>>

\* what one write of the wrapper holds: a marker line, a line of program
\* output, or text that does not end its line
Chunks == { Marker(0) \o <<NL>>, Marker(1) \o <<NL>>, <<"hi", NL>>, <<"x">> }

ReturnCodes == {0, 1}

\* the wrapper writes chunk to one of its two pipes
WrapperWrite(stream, chunk) ==
    /\ pc = "wait"
    /\ proc.state = "running"
    /\ Len(proc.log) < MaxWrites
    /\ proc' = [proc EXCEPT
                  !.stdout = IF stream = "stdout" THEN @ \o chunk ELSE @,
                  !.stderr = IF stream = "stderr" THEN @ \o chunk ELSE @,
                  !.log = Append(@, <<stream, chunk>>)]
    /\ UNCHANGED <<pc, args, env, content, lines, shebang, binary, wrapper,
                   blocks, lexer, wrapper_args, output, out, err, exitcode>>

\* the wrapper ends with status rc
WrapperExit(rc) ==
    /\ pc = "wait"
    /\ proc.state = "running"
    /\ proc' = [proc EXCEPT !.state = "exited", !.returncode = rc]
    /\ UNCHANGED <<pc, args, env, content, lines, shebang, binary, wrapper,
                   blocks, lexer, wrapper_args, output, out, err, exitcode>>

\* subprocess.run(..., check=True): a non-zero status raises
\* CalledProcessError, a SubprocessError, and main dies
CollectOutputChecked ==
    /\ pc = "wait"
    /\ proc.state = "exited"
    /\ IF proc.returncode # 0
       THEN Die("failed to run wrapper") /\ UNCHANGED output
       ELSE /\ output' = CombinedOutput(proc)
            /\ pc' = "process"
            /\ UNCHANGED <<err, exitcode>>
    /\ UNCHANGED <<args, env, content, lines, shebang, binary, wrapper, blocks,
                   lexer, wrapper_args, proc, out>>

\* subprocess.run returns once the child has ended;
\* output = result.stdout + result.stderr
CollectOutput ==
    /\ pc = "wait"
    /\ proc.state = "exited"
    /\ output' = CombinedOutput(proc)
    /\ pc' = "process"
    /\ UNCHANGED <<args, env, content, lines, shebang, binary, wrapper, blocks,
                   lexer, wrapper_args, proc, out, err, exitcode>>

\* process_output(output, blocks, lexer, args.show_block_numbers), then the end
\* of main: status 0, or the traceback and status 1 of an uncaught IndexError
ProcessOutput ==
    /\ pc = "process"
    /\ LET r == process_output(env, output, blocks, lexer,
                               args.show_block_numbers)
       IN  /\ out' = out \o r.printed
           /\ IF r.raised
              THEN /\ err' = Append(err, "Traceback: IndexError")
                   /\ exitcode' = EXIT_FAIL
              ELSE /\ err' = err
                   /\ exitcode' = EXIT_OK
    /\ pc' = "exit"
    /\ UNCHANGED <<args, env, content, lines, shebang, binary, wrapper, blocks,
                   lexer, wrapper_args, proc, output>>

-----------------------------------------------------------------------------
(* Runs of main() *)

SH == <<"/", "bin", "/", "sh">>

\* the scripts of the runs: empty; no shebang; a bare "#!"; /bin/sh with two
\* blank-line blocks; /bin/sh with no body; /bin/sh with a "## " header;
\* env sh with one block; /bin/sh with blank lines only; one empty line
Scripts ==
    { <<>>,
      <<"a", NL>>,
      <<"#", "!", NL, "a", NL>>,
      <<"#", "!">> \o SH \o <<NL, "a", NL, NL, "b", NL>>,
      <<"#", "!">> \o SH \o <<NL>>,
      <<"#", "!">> \o SH \o <<NL, "#", "#", SP, "h", NL, "a", NL>>,
      <<"#", "!", ENV, SP, "sh", NL, "a", NL>>,
      <<"#", "!">> \o SH \o <<NL, SP, NL, NL>>,
      <<NL>> }

NoFile == [is_file |-> FALSE, readable |-> FALSE, text |-> <<>>]

\* the machines of the runs: with or without an executable wrapper named sh in
\* the user's wrapper directory, no configuration file, sh found on the search
\* path or not
Machines ==
    { [is_file |-> f, readable |-> r, text |-> t,
       configs |-> <<NoFile, NoFile>>,
       exec_files |-> x, which |-> w,
       pygmentize |-> p, guess |-> "text", launch_ok |-> l] :
      f \in BOOLEAN, r \in BOOLEAN, t \in Scripts,
      x \in { {}, {PathJoin(WRAPPER_DIRS[1], <<"sh">>)} },
      w \in { {}, {<< <<"sh">>, SH >>} },
      p \in {"absent", "works"}, l \in BOOLEAN }

Init ==
    /\ pc = "check_script"
    /\ args \in [script : {<<"script">>}, hierarchical : BOOLEAN,
                 show_block_numbers : BOOLEAN]
    /\ env \in {m \in Machines : (~m.is_file => ~m.readable)}
    /\ content = None
    /\ lines = <<>>
    /\ shebang = None
    /\ binary = None
    /\ wrapper = None
    /\ blocks = <<>>
    /\ lexer = ""
    /\ wrapper_args = <<>>
    /\ proc = NoProc
    /\ output = None
    /\ out = <<>>
    /\ err = <<>>
    /\ exitcode = RUNNING

Next ==
    \/ CheckScript
    \/ ReadScript
    \/ CheckEmpty
    \/ CheckShebang
    \/ ParseShebang
    \/ FindWrapper
    \/ SplitBlocks
    \/ PrintHeader
    \/ LaunchWrapper
    \/ \E stream \in {"stdout", "stderr"}, chunk \in Chunks :
           WrapperWrite(stream, chunk)
    \/ \E rc \in ReturnCodes : WrapperExit(rc)
    \/ CollectOutput
    \/ ProcessOutput

Spec == Init /\ [][Next]_vars

-----------------------------------------------------------------------------
(* The functions on their own: each specification below starts at a call of *)
(* one function, with its arguments drawn from a bounded set.               *)

\* all texts over chars of at most n characters
TextsUpTo(chars, n) == UNION {[1..k -> chars] : k \in 0..n}

\* a machine with nothing installed
BareMachine ==
    [is_file |-> TRUE, readable |-> TRUE, text |-> <<>>,
     configs |-> <<NoFile, NoFile>>, exec_files |-> {}, which |-> {},
     pygmentize |-> "absent", guess |-> "text", launch_ok |-> TRUE]

PlainArgs ==
    [script |-> <<"script">>, hierarchical |-> FALSE,
     show_block_numbers |-> FALSE]

\* the longest document body handed to a splitter
MaxBody == 5

BodyChars == {"a", "#", SP, NL}

InitSplit ==
    /\ pc = "call_split"
    /\ args = PlainArgs
    /\ env = BareMachine
    /\ content \in TextsUpTo(BodyChars, MaxBody)
    /\ lines = <<>>
    /\ shebang = None
    /\ binary = None
    /\ wrapper = None
    /\ blocks = <<>>
    /\ lexer = ""
    /\ wrapper_args = <<>>
    /\ proc = NoProc
    /\ output = None
    /\ out = <<>>
    /\ err = <<>>
    /\ exitcode = RUNNING

\* blocks = split_blocks_blank_lines(content)
CallSplitBlankLines ==
    /\ pc = "call_split"
    /\ blocks' = split_blocks_blank_lines(content)
    /\ args' = [args EXCEPT !.hierarchical = FALSE]
    /\ pc' = "split_returned"
    /\ UNCHANGED <<env, content, lines, shebang, binary, wrapper, lexer,
                   wrapper_args, proc, output, out, err, exitcode>>

\* blocks = split_blocks_hierarchical(content)
CallSplitHierarchical ==
    /\ pc = "call_split"
    /\ blocks' = split_blocks_hierarchical(content)
    /\ args' = [args EXCEPT !.hierarchical = TRUE]
    /\ pc' = "split_returned"
    /\ UNCHANGED <<env, content, lines, shebang, binary, wrapper, lexer,
                   wrapper_args, proc, output, out, err, exitcode>>

NextSplit == CallSplitBlankLines \/ CallSplitHierarchical

SpecSplit == InitSplit /\ [][NextSplit]_vars

\* the most characters of a shebang line after its "#!"
MaxShebang == 4

ShebangChars == {"#", "!", SP, ENV, "sh", "-x"}

InitShebang ==
    /\ pc = "call_parse_shebang"
    /\ args = PlainArgs
    /\ env \in {[BareMachine EXCEPT !.which = w] :
                    w \in { {}, {<< <<"sh">>, SH >>} }}
    /\ content = None
    /\ lines = <<>>
    /\ shebang \in {<<"#", "!">> \o t : t \in TextsUpTo(ShebangChars, MaxShebang)}
    /\ binary = <<>>
    /\ wrapper = None
    /\ blocks = <<>>
    /\ lexer = ""
    /\ wrapper_args = <<>>
    /\ proc = NoProc
    /\ output = None
    /\ out = <<>>
    /\ err = <<>>
    /\ exitcode = RUNNING

\* binary = parse_shebang(shebang)
CallParseShebang ==
    /\ pc = "call_parse_shebang"
    /\ binary' = parse_shebang(env, shebang)
    /\ pc' = "parse_shebang_returned"
    /\ UNCHANGED <<args, env, content, lines, shebang, wrapper, blocks, lexer,
                   wrapper_args, proc, output, out, err, exitcode>>

NextShebang == CallParseShebang

SpecShebang == InitShebang /\ [][NextShebang]_vars

\* the most lines of one configuration file
MaxConfigLines == 2

\* the identifiers looked up: /bin/sh and sh
Binaries == {SH, <<"sh">>}

\* the lines of the configuration files: an identifier, "=", and a wrapper name
\* that is empty, "w" or " v"
ConfigLines ==
    {k \o <<"=">> \o v : k \in Binaries, v \in {<<>>, <<"w">>, <<SP, "v">>}}

\* the texts of n lines, each ended by a line break
RECURSIVE ConfigTexts(_)
ConfigTexts(n) ==
    IF n = 0 THEN {<<>>}
    ELSE {l \o <<NL>> \o t : l \in ConfigLines, t \in ConfigTexts(n - 1)}

\* a configuration path: no file, a file that cannot be read, or a file of at
\* most MaxConfigLines lines
ConfigFiles ==
    {NoFile, [is_file |-> TRUE, readable |-> FALSE, text |-> <<>>]}
    \cup {[is_file |-> TRUE, readable |-> TRUE, text |-> t] :
              t \in UNION {ConfigTexts(n) : n \in 0..MaxConfigLines}}

\* the executable files under the two wrapper directories
WrapperFiles ==
    {PathJoin(WRAPPER_DIRS[d], n) :
         d \in 1..Len(WRAPPER_DIRS), n \in {<<"sh">>, <<"w">>, <<"v">>}}

InitLocate ==
    /\ pc = "call_find_wrapper"
    /\ args = PlainArgs
    /\ env \in {[BareMachine EXCEPT !.configs = <<c1, c2>>, !.exec_files = x] :
                    c1 \in ConfigFiles, c2 \in ConfigFiles,
                    x \in {y \in SUBSET WrapperFiles : Cardinality(y) <= 2}}
    /\ content = None
    /\ lines = <<>>
    /\ shebang = None
    /\ binary \in Binaries
    /\ wrapper = <<>>
    /\ blocks = <<>>
    /\ lexer = ""
    /\ wrapper_args = <<>>
    /\ proc = NoProc
    /\ output = None
    /\ out = <<>>
    /\ err = <<>>
    /\ exitcode = RUNNING

\* wrapper = find_wrapper(binary)
CallFindWrapper ==
    /\ pc = "call_find_wrapper"
    /\ wrapper' = find_wrapper(env, binary)
    /\ pc' = "find_wrapper_returned"
    /\ UNCHANGED <<args, env, content, lines, shebang, binary, blocks, lexer,
                   wrapper_args, proc, output, out, err, exitcode>>

NextLocate == CallFindWrapper

SpecLocate == InitLocate /\ [][NextLocate]_vars

\* the most lines of a wrapper output handed to process_output
MaxLines == 4

ECHO_HI  == <<"echo", SP, "hi">>
ECHO_BYE == <<"echo", SP, "bye">>

\* the lines a wrapper writes: markers of blocks 0, 1 and 5, program output,
\* and two lines close to a marker (a leading blank; the index written "01")
WrapperLines ==
    { Marker(0), Marker(1), Marker(5), <<"hi">>, <<"bye">>,
      <<SP>> \o Marker(0), <<MARKER, "{", "0", "1", "}", MARKER>> }

\* the wrapper's writes, one per line, each ended by a line break
LineWrites(ls) == [i \in 1..Len(ls) |-> <<"stdout", ls[i] \o <<NL>> >>]

\* the text of the writes made to one stream, in the order written
RECURSIVE Written(_, _)
Written(log, stream) ==
    IF log = <<>> THEN <<>>
    ELSE (IF Head(log)[1] = stream THEN Head(log)[2] ELSE <<>>)
         \o Written(Tail(log), stream)

\* main() at the return of subprocess.run: the wrapper has written whole lines
\* to its standard output and has ended
InitReassemble ==
    /\ pc = "wait"
    /\ args \in [script : {<<"script">>}, hierarchical : {FALSE},
                 show_block_numbers : BOOLEAN]
    /\ \E hl \in BOOLEAN :
           /\ env = [BareMachine EXCEPT
                       !.pygmentize = IF hl THEN "works" ELSE "absent"]
           /\ lexer = IF hl THEN "bash" ELSE "text"
    /\ content = None
    /\ lines = <<>>
    /\ shebang = <<"#", "!">> \o SH
    /\ binary = SH
    /\ wrapper = PathJoin(WRAPPER_DIRS[1], <<"sh">>)
    /\ blocks \in { <<ECHO_HI, ECHO_BYE>>, <<ECHO_HI>> }
    /\ wrapper_args = WrapperArgs(wrapper, binary, blocks)
    /\ \E ls \in UNION {[1..k -> WrapperLines] : k \in 0..MaxLines} :
           proc = [state |-> "exited", returncode |-> 0,
                   stdout |-> Written(LineWrites(ls), "stdout"),
                   stderr |-> <<>>, log |-> LineWrites(ls)]
    /\ output = None
    /\ out = FileHeaderPrints(args.script, shebang)
    /\ err = <<>>
    /\ exitcode = RUNNING

NextReassemble == CollectOutput \/ ProcessOutput

SpecReassemble == InitReassemble /\ [][NextReassemble]_vars

-----------------------------------------------------------------------------
(* Properties of the splitters (SpecSplit) *)

\* a line with a character that is not blank
NonBlank(line) == \E j \in 1..Len(line) : line[j] \notin WhiteSpace

\* the lines that open a maximal run of non-blank lines
RunStarts(ls) ==
    {i \in 1..Len(ls) : NonBlank(ls[i]) /\ (i = 1 \/ ~NonBlank(ls[i - 1]))}

\* the last line of the run that line s opens
RunEnd(ls, s) ==
    CHOOSE e \in s..Len(ls) :
        /\ \A k \in s..e : NonBlank(ls[k])
        /\ e = Len(ls) \/ ~NonBlank(ls[e + 1])

\* the first line of the k-th run
KthRunStart(ls, k) ==
    CHOOSE s \in RunStarts(ls) :
        Cardinality({t \in RunStarts(ls) : t <= s}) = k

\* the lines of the k-th run
KthRun(ls, k) ==
    SubSeq(ls, KthRunStart(ls, k), RunEnd(ls, KthRunStart(ls, k)))

\* C1: split_blocks_blank_lines returns exactly the maximal runs of consecutive
\* non-blank lines of the body, in document order: as many blocks as runs,
\* block k made of the lines of the k-th run in order, no block empty and no
\* block holding an empty or whitespace-only line.
C1_BlankLineBlocksAreRuns ==
    (pc = "split_returned" /\ ~args.hierarchical) =>
        LET ls == SplitLines(content) IN
        /\ Len(blocks) = Cardinality(RunStarts(ls))
        /\ \A k \in 1..Len(blocks) :
               /\ SplitOn(blocks[k], NL) = KthRun(ls, k)
               /\ blocks[k] # <<>>
               /\ \A i \in 1..Len(SplitOn(blocks[k], NL)) :
                      NonBlank(SplitOn(blocks[k], NL)[i])

\* two blocks came out of a body that also holds a whitespace-only line
C1_Witness ==
    /\ pc = "split_returned"
    /\ ~args.hierarchical
    /\ Len(blocks) = 2
    /\ \E i \in 1..Len(SplitLines(content)) : SplitLines(content)[i] = <<SP>>

\* no line of the body begins with "## "
NoHeaderLine(ls) == \A i \in 1..Len(ls) : ~StartsWith(ls[i], HEADER)

\* the body does not open with a blank line
NoLeadingBlank(ls) == ls = <<>> \/ NonBlank(ls[1])

\* C9 as claimed: every body with no "## " line and no leading blank line gives
\* exactly one block, which holds all the body's lines in order.
C9_Original ==
    (/\ pc = "split_returned"
     /\ args.hierarchical
     /\ NoHeaderLine(SplitLines(content))
     /\ NoLeadingBlank(SplitLines(content))) =>
        /\ Len(blocks) = 1
        /\ SplitOn(blocks[1], NL) = SplitLines(content)

\* C9: split_blocks_hierarchical, on a body of at least one line with no "## "
\* line and no leading blank line, returns exactly one block, and that block
\* holds every line of the body, blank ones included, in the original order.
C9_HeaderlessBodyIsOneBlock ==
    (/\ pc = "split_returned"
     /\ args.hierarchical
     /\ SplitLines(content) # <<>>
     /\ NoHeaderLine(SplitLines(content))
     /\ NoLeadingBlank(SplitLines(content))) =>
        /\ Len(blocks) = 1
        /\ SplitOn(blocks[1], NL) = SplitLines(content)
        /\ blocks[1] = Join(SplitLines(content), <<NL>>)

\* a headerless body with a blank line inside came back as one block
C9_Witness ==
    /\ pc = "split_returned"
    /\ args.hierarchical
    /\ NoHeaderLine(SplitLines(content))
    /\ NoLeadingBlank(SplitLines(content))
    /\ Len(SplitLines(content)) >= 3
    /\ ~NonBlank(SplitLines(content)[2])
    /\ Len(blocks) = 1

-----------------------------------------------------------------------------
(* Properties of the shebang resolver (SpecShebang) *)

\* the line with exactly its first two characters, "#!", removed and the
\* surrounding blanks stripped
Remainder(line) == Strip(SubSeq(line, 3, Len(line)))

\* C8 as claimed: the remainder is the line less exactly the prefix "#!",
\* stripped; an empty remainder gives None; otherwise the result is not empty
\* and is, for "/usr/bin/env <token> ...", the resolved path of the token or
\* else the token, and for any other remainder its first word.
C8_Original ==
    pc = "parse_shebang_returned" =>
        LET rem == Remainder(shebang) IN
        IF rem = <<>> THEN binary = None
        ELSE /\ binary # None
             /\ binary # <<>>
             /\ IF EnvMatch(rem) # None
                THEN binary = IF Which(env, EnvMatch(rem)) # None
                              THEN Which(env, EnvMatch(rem))
                              ELSE EnvMatch(rem)
                ELSE binary = FirstWord(rem)

-----------------------------------------------------------------------------
(* Properties of the wrapper locator (SpecLocate) *)

\* every line of the configuration sources that can be read, sources in list
\* order and lines in file order
RECURSIVE EntriesFrom(_, _)
EntriesFrom(e, i) ==
    IF i > NCONFIG THEN <<>>
    ELSE (IF e.configs[i].is_file /\ e.configs[i].readable
          THEN SplitLines(e.configs[i].text) ELSE <<>>)
         \o EntriesFrom(e, i + 1)

\* the key of an entry: its text before the first "="
RECURSIVE KeyOf(_)
KeyOf(line) ==
    IF line = <<>> \/ Head(line) = "=" THEN <<>>
    ELSE <<Head(line)>> \o KeyOf(Tail(line))

\* the entries keyed by the full identifier
KeyedEntries(e, bin) ==
    {i \in 1..Len(EntriesFrom(e, 1)) :
         /\ \E j \in 1..Len(EntriesFrom(e, 1)[i]) : EntriesFrom(e, 1)[i][j] = "="
         /\ KeyOf(EntriesFrom(e, 1)[i]) = bin}

\* the name the claim has searched: the value of the first keyed entry, the
\* basename when there is none
ClaimedName(e, bin) ==
    IF KeyedEntries(e, bin) # {}
    THEN LET first == CHOOSE i \in KeyedEntries(e, bin) :
                          \A k \in KeyedEntries(e, bin) : i <= k
         IN  Strip(AfterEquals(EntriesFrom(e, 1)[first]))
    ELSE PathName(bin)

\* the wrapper directories that hold an executable file called name
HoldingDirs(e, name) ==
    {d \in 1..Len(WRAPPER_DIRS) :
         name # <<>> /\ (WRAPPER_DIRS[d] \o <<"/">> \o name) \in e.exec_files}

\* C7 as claimed: the searched name is the value of the first entry keyed by
\* the full identifier, whatever that value, and the basename only when no
\* source holds such an entry; the result is the path in the first wrapper
\* directory holding an executable file of that name, None when none does.
C7_Original ==
    pc = "find_wrapper_returned" =>
        LET name == ClaimedName(env, binary)
            dirs == HoldingDirs(env, name)
        IN  IF dirs = {} THEN wrapper = None
            ELSE wrapper = WRAPPER_DIRS[CHOOSE d \in dirs :
                                            \A k \in dirs : d <= k]
                           \o <<"/">> \o name

-----------------------------------------------------------------------------
(* Properties of the reassembler (SpecReassemble) *)

\* what the run has printed before reassembly starts
FileHeader == FileHeaderPrints(args.script, shebang)

\* the lines the wrapper wrote, each without the line break that ends it
LinesWritten(log) ==
    [i \in 1..Len(log) |-> SubSeq(log[i][2], 1, Len(log[i][2]) - 1)]

\* a marker line whose index names no block
BadMarker(line, bs) == IsMarkerLine(line) /\ MarkerIndex(line) >= Len(bs)

\* what the claims have one line emit: for a marker of a block, the header
\* when enabled, the block's text through the highlighter and the separator;
\* for any other line, the line
Rendering(e, line, bs, lx, show) ==
    IF IsMarkerLine(line)
    THEN (IF show THEN <<BlockHeader(MarkerIndex(line) + 1)>> ELSE <<>>)
         \o <<highlight(e, bs[MarkerIndex(line) + 1], lx), separator>>
    ELSE <<line>>

\* the renderings of the first n lines, one after the other
RECURSIVE Renderings(_, _, _, _, _, _)
Renderings(e, ls, n, bs, lx, show) ==
    IF n = 0 THEN <<>>
    ELSE Renderings(e, ls, n - 1, bs, lx, show)
         \o Rendering(e, ls[n], bs, lx, show)

\* C2 as claimed: for a wrapper output made of newline-terminated lines whose
\* markers all name a block, the run emits the renderings of the lines in
\* order and nothing else, no extra line before, between or after.
C2_Original ==
    (/\ pc = "exit"
     /\ \A i \in 1..Len(proc.log) :
            ~BadMarker(LinesWritten(proc.log)[i], blocks)) =>
        out = FileHeader
              \o Renderings(env, LinesWritten(proc.log), Len(proc.log), blocks,
                            lexer, args.show_block_numbers)

\* the first line written that is a marker naming no block
FirstBad(ls, bs) ==
    CHOOSE i \in 1..Len(ls) :
        /\ BadMarker(ls[i], bs)
        /\ \A k \in 1..(i - 1) : ~BadMarker(ls[k], bs)

\* C3 as claimed: a marker whose index is not in 0..n-1 ends the run with a
\* non-zero status, and nothing is emitted for it: no header, no block text,
\* no separator, no pass-through of the line; the output stops at the
\* renderings of the lines before it.
C3_Original ==
    (/\ pc = "exit"
     /\ \E i \in 1..Len(proc.log) :
            BadMarker(LinesWritten(proc.log)[i], blocks)) =>
        /\ exitcode = EXIT_FAIL
        /\ out = FileHeader
                 \o Renderings(env, LinesWritten(proc.log),
                               FirstBad(LinesWritten(proc.log), blocks) - 1,
                               blocks, lexer, args.show_block_numbers)

-----------------------------------------------------------------------------
(* Properties of a run of main() (Spec) *)

\* the body of the script of this run, as main hands it to the splitter
BodyOf(e) == Join(Tail(SplitLines(e.text)), <<NL>>)

\* the blocks of the script of this run under the strategy chosen
BlocksOf(e, a) ==
    IF a.hierarchical THEN split_blocks_hierarchical(BodyOf(e))
    ELSE split_blocks_blank_lines(BodyOf(e))

\* the first check to fail in the order of the claim (the read of the file
\* comes between "exists" and "non-empty"), "none" when all pass
FirstFailure(e, a) ==
    IF ~e.is_file THEN "script not found"
    ELSE IF ~e.readable THEN "could not read script"
    ELSE IF e.text = <<>> THEN "script is empty"
    ELSE IF ~StartsWith(SplitLines(e.text)[1], <<"#", "!">>)
    THEN "no shebang found"
    ELSE IF parse_shebang(e, SplitLines(e.text)[1]) = None
    THEN "could not parse shebang"
    ELSE IF find_wrapper(e, parse_shebang(e, SplitLines(e.text)[1])) = None
    THEN "no wrapper found"
    ELSE IF BlocksOf(e, a) = <<>> THEN "no blocks found"
    ELSE IF ~e.launch_ok THEN "failed to run wrapper"
    ELSE "none"

\* the checks that come before the launch of the wrapper
BeforeLaunch ==
    {"script not found", "could not read script", "script is empty",
     "no shebang found", "could not parse shebang", "no wrapper found",
     "no blocks found"}

\* C4: the checks run in the order file exists, file non-empty, "#!" present,
\* shebang parses, wrapper found, a block found, wrapper launches; the first
\* to fail ends the run with exit code 1 and exactly one diagnostic, its own,
\* on standard error; nothing later is done: when one of the first six fails
\* the wrapper is never launched and nothing is printed.
C4_FirstFailedCheckEndsRun ==
    FirstFailure(env, args) # "none" =>
        /\ pc = "exit" =>
               /\ exitcode = EXIT_FAIL
               /\ err = <<FirstFailure(env, args)>>
        /\ pc # "exit" => (exitcode = RUNNING /\ err = <<>>)
        /\ output = None
        /\ FirstFailure(env, args) \in BeforeLaunch =>
               /\ proc = NoProc
               /\ wrapper_args = <<>>
               /\ out = <<>>
        /\ FirstFailure(env, args) = "no wrapper found" => blocks = <<>>

\* a script with neither a wrapper nor a block ended on "no wrapper found"
C4_Witness ==
    /\ pc = "exit"
    /\ exitcode = EXIT_FAIL
    /\ err = <<"no wrapper found">>
    /\ BlocksOf(env, args) = <<>>


\* the lines of everything the wrapper wrote, standard output first
CapturedLines == SplitOn(proc.stdout \o proc.stderr, NL)

\* every marker the wrapper wrote names a block
MarkersValid ==
    \A i \in 1..Len(CapturedLines) : ~BadMarker(CapturedLines[i], blocks)

\* C5: once the wrapper has run to completion and every marker names a block,
\* the run shows the reassembly of all the captured output and ends with exit
\* code 0, whatever the wrapper's exit status.
C5_WrapperStatusIgnored ==
    (pc = "exit" /\ proc.state = "exited" /\ MarkersValid) =>
        /\ exitcode = EXIT_OK
        /\ err = <<>>
        /\ out = FileHeader
                 \o Renderings(env, CapturedLines, Len(CapturedLines), blocks,
                               lexer, args.show_block_numbers)

\* a run whose wrapper wrote a marker and a line and ended non-zero ended with 0
C5_Witness ==
    /\ pc = "exit"
    /\ proc.state = "exited"
    /\ proc.returncode = 1
    /\ Len(proc.log) >= 2
    /\ \E i \in 1..Len(CapturedLines) : IsMarkerLine(CapturedLines[i])
    /\ MarkersValid
    /\ exitcode = EXIT_OK

\* C6: the wrapper is invoked with exactly the 4+n arguments wrapper path,
\* "--binary", the binary identifier, "--" and then the n blocks the splitter
\* produced, each one argument, in order; and reassembly resolves marker {i}
\* to the block passed as argument 4+i.
C6_BlocksAreTheArguments ==
    wrapper_args # <<>> =>
        /\ blocks = BlocksOf(env, args)
        /\ Len(wrapper_args) = 4 + Len(blocks)
        /\ wrapper_args[1] = wrapper
        /\ wrapper_args[2] = <<"--binary">>
        /\ wrapper_args[3] = binary
        /\ wrapper_args[4] = <<"--">>
        /\ \A i \in 1..Len(blocks) : wrapper_args[4 + i] = blocks[i]
        /\ (pc = "exit" /\ proc.state = "exited" /\ MarkersValid) =>
               out = FileHeader
                     \o Renderings(env, CapturedLines, Len(CapturedLines),
                                   SubSeq(wrapper_args, 5, Len(wrapper_args)),
                                   lexer, args.show_block_numbers)

\* a run of two blocks in which the marker of the second block was rendered
C6_Witness ==
    /\ pc = "exit"
    /\ exitcode = EXIT_OK
    /\ Len(blocks) = 2
    /\ Len(wrapper_args) = 6
    /\ \E i \in 1..Len(CapturedLines) : CapturedLines[i] = Marker(1)
    /\ \E k \in 1..Len(out) : out[k] = highlight(env, wrapper_args[6], lexer)

\* C10: the text handed to reassembly is all the wrapper wrote to standard
\* output followed by all it wrote to standard error, with nothing between,
\* whatever the order of the writes; what is shown follows that text, not the
\* order of the writes.
C10_StdoutBeforeStderr ==
    output # None =>
        /\ output = Written(proc.log, "stdout") \o Written(proc.log, "stderr")
        /\ (pc = "exit" /\ MarkersValid) =>
               out = FileHeader
                     \o Renderings(env,
                                   SplitOn(Written(proc.log, "stdout")
                                           \o Written(proc.log, "stderr"), NL),
                                   Len(CapturedLines), blocks, lexer,
                                   args.show_block_numbers)

\* the wrapper wrote a line to standard error and then a marker to standard
\* output; the block is shown before the line
C10_Witness ==
    /\ pc = "exit"
    /\ proc.log = << <<"stderr", <<"hi", NL>> >>,
                     <<"stdout", Marker(0) \o <<NL>> >> >>
    /\ ~args.show_block_numbers
    /\ out = FileHeader
             \o <<highlight(env, blocks[1], lexer), separator, <<"hi">>, <<>> >>

=============================================================================
